---- MODULE Spec2Model ----
(***************************************************************************)
(* Model of src/src/components/FindGoofyGame.tsx: the round state machine  *)
(* of the FindGoofyGame React component.  Every event handler is one       *)
(* action; an action applies the handler's state updates, then the render  *)
(* that follows and the effects of that render (the level completion check *)
(* and the game over effect) until no state changes any more.              *)
(***************************************************************************)
EXTENDS Integers, Sequences, FiniteSets

VARIABLES
    gameState,      \* useState<GameState>: score, timeLeft, gameStarted, gameOver, difficulty, level
    characters,     \* useState<Character[]>
    scopeVisible,   \* useState(false)
    highScore,      \* useState(() => parseInt(localStorage.getItem(..) || '0'))
    localStorage,   \* the entry 'findGoofyHighScore' of window.localStorage
    timerRef,       \* timerRef.current: 0 is undefined, otherwise an interval id
    timers,         \* the ids of the intervals that are live (set and not cleared)
    penalties,      \* the number of clicks so far that lowered the score (history only)
    startScore      \* the score with which the last round started (history only)

vars == <<gameState, characters, scopeVisible, highScore, localStorage, timerRef, timers,
          penalties, startScore>>

-----------------------------------------------------------------------------
(* Bounds of the exploration.                                              *)

\* the seeds 0..MaxSeed of the random source behind Math.random()
MaxSeed == 0
\* the random source yields the values k / RandRes, k in 0..RandRes-1
RandRes == 4
\* nextLevel is explored while the round it starts has at most MaxEntities
\* entities
MaxEntities == 25
\* char-0 .. char-(MaxWrongId) are the non-target entities that get clicked
MaxWrongId == 0
\* at most MaxPenalties clicks that lower the score are explored (a click
\* on a non-target at score 0 lowers nothing and is always explored)
MaxPenalties == 1
\* goofy-0 .. goofy-(MaxFreeTargets - 1) are clicked in every order; the
\* targets after them are clicked before them, in the order of their index
MaxFreeTargets == 3
\* the over-won state is left (nextLevel, resetGame) only when the win came
\* within the first MaxCarryTicks ticks of the round
MaxCarryTicks == 0
\* startGame is explored while the high score is at most MaxReplayHighScore
MaxReplayHighScore == 500

\* the generator is applied at the levels 1..MaxGenLevel
MaxGenLevel == 20

-----------------------------------------------------------------------------
(* Program constants.                                                      *)

GAME_DURATION == 60

DIFFICULTIES ==
    [easy   |-> [totalCharacters |-> 20, goofyCount |-> 3],
     medium |-> [totalCharacters |-> 40, goofyCount |-> 5],
     hard   |-> [totalCharacters |-> 60, goofyCount |-> 7]]

Tiers == {"easy", "medium", "hard"}

PaletteSize == 10

Min(a, b) == IF a < b THEN a ELSE b
Max(a, b) == IF a > b THEN a ELSE b

-----------------------------------------------------------------------------
(* JavaScript numbers and strings, as far as the high score needs them.    *)

NaN == [nan |-> TRUE, val |-> 0]
Num(n) == [nan |-> FALSE, val |-> n]

\* n > h for an integer n and a JavaScript number h: false when h is NaN
Greater(n, h) == ~h.nan /\ n > h.val

Digits == <<"0", "1", "2", "3", "4", "5", "6", "7", "8", "9">>
IsDigit(c) == \E d \in 1..10 : Digits[d] = c
DigitVal(c) == (CHOOSE d \in 1..10 : Digits[d] = c) - 1

\* Number.prototype.toString of an integer
RECURSIVE toString(_)
toString(n) ==
    IF n < 0 THEN <<"-">> \o toString(-n)
    ELSE IF n < 10 THEN <<Digits[n + 1]>>
    ELSE toString(n \div 10) \o <<Digits[(n % 10) + 1]>>

RECURSIVE SkipSpaces(_)
SkipSpaces(s) == IF Len(s) > 0 /\ s[1] = " " THEN SkipSpaces(Tail(s)) ELSE s

\* the value of the longest prefix of digits of s, acc the value read so far
RECURSIVE DigitPrefix(_, _)
DigitPrefix(s, acc) ==
    IF Len(s) > 0 /\ IsDigit(s[1])
    THEN DigitPrefix(Tail(s), 10 * acc + DigitVal(s[1]))
    ELSE acc

\* parseInt(s): leading blanks, an optional sign, then the longest prefix of
\* decimal digits; NaN when there is no digit
parseInt(s) ==
    LET t == SkipSpaces(s)
        signed == Len(t) > 0 /\ t[1] \in {"-", "+"}
        body == IF signed THEN Tail(t) ELSE t
        mag == DigitPrefix(body, 0)
    IN  IF Len(body) = 0 \/ ~IsDigit(body[1]) THEN NaN
        ELSE IF signed /\ t[1] = "-" THEN Num(-mag) ELSE Num(mag)

\* localStorage entry: absent, or present with a string value
Absent == [present |-> FALSE, value |-> <<>>]
Stored(s) == [present |-> TRUE, value |-> s]

\* localStorage.getItem('findGoofyHighScore') || '0'
getItemOrZero(ls) == IF ~ls.present \/ ls.value = <<>> THEN <<"0">> ELSE ls.value

\* the useState initializer of highScore
InitialHighScore(ls) == parseInt(getItemOrZero(ls))

-----------------------------------------------------------------------------
(* The round generator.                                                    *)

\* the k-th draw of Math.random() under a seed, as a numerator over RandRes
Random(seed, k) == (seed + 3 * k) % RandRes

totalCharactersFor(difficulty, level) ==
    Min(DIFFICULTIES[difficulty].totalCharacters + (level - 1) * 5, 80)

\* the target count without the cap of 12
goofyCountFor_NoCap(difficulty, level) ==
    DIFFICULTIES[difficulty].goofyCount + ((level - 1) \div 2)

goofyCountFor(difficulty, level) ==
    Min(DIFFICULTIES[difficulty].goofyCount + ((level - 1) \div 2), 12)

\* generateCharacters that names the targets like the other entities
generateCharacters_SameIds(difficulty, level, seed) ==
    LET totalCharacters == totalCharactersFor(difficulty, level)
        goofyCount == goofyCountFor(difficulty, level)
        goofy == [i \in 1..goofyCount |->
                    [id |-> <<"char", i - 1>>,
                     x |-> Random(seed, 2 * i - 2) * 85 + 5 * RandRes,
                     y |-> Random(seed, 2 * i - 1) * 75 + 15 * RandRes,
                     isGoofy |-> TRUE,
                     isFound |-> FALSE,
                     emoji |-> "goofy"]]
        base == 2 * goofyCount
        regular == [i \in 1..(IF totalCharacters > goofyCount
                               THEN totalCharacters - goofyCount ELSE 0) |->
                    [id |-> <<"char", i - 1>>,
                     x |-> Random(seed, base + 3 * i - 3) * 85 + 5 * RandRes,
                     y |-> Random(seed, base + 3 * i - 2) * 75 + 15 * RandRes,
                     isGoofy |-> FALSE,
                     isFound |-> FALSE,
                     emoji |-> (Random(seed, base + 3 * i - 1) * PaletteSize) \div RandRes]]
    IN  goofy \o regular

\* positions are kept as numerators over RandRes: x = xNum / RandRes
generateCharacters(difficulty, level, seed) ==
    LET totalCharacters == totalCharactersFor(difficulty, level)
        goofyCount == goofyCountFor(difficulty, level)
        goofy == [i \in 1..goofyCount |->
                    [id |-> <<"goofy", i - 1>>,
                     x |-> Random(seed, 2 * i - 2) * 85 + 5 * RandRes,
                     y |-> Random(seed, 2 * i - 1) * 75 + 15 * RandRes,
                     isGoofy |-> TRUE,
                     isFound |-> FALSE,
                     emoji |-> "goofy"]]
        base == 2 * goofyCount
        regular == [i \in 1..(IF totalCharacters > goofyCount
                               THEN totalCharacters - goofyCount ELSE 0) |->
                    [id |-> <<"char", i - 1>>,
                     x |-> Random(seed, base + 3 * i - 3) * 85 + 5 * RandRes,
                     y |-> Random(seed, base + 3 * i - 2) * 75 + 15 * RandRes,
                     isGoofy |-> FALSE,
                     isFound |-> FALSE,
                     emoji |-> (Random(seed, base + 3 * i - 1) * PaletteSize) \div RandRes]]
    IN  goofy \o regular

-----------------------------------------------------------------------------
(* The component's state as one record, and the handlers as functions on   *)
(* it.                                                                     *)

World ==
    [gameState |-> gameState, characters |-> characters, scopeVisible |-> scopeVisible,
     highScore |-> highScore, localStorage |-> localStorage,
     timerRef |-> timerRef, timers |-> timers]

\* clearInterval that cancels nothing
clearInterval_Noop(w) == w

\* clearInterval(timerRef.current)
clearInterval(w) == [w EXCEPT !.timers = @ \ {w.timerRef}]

\* setInterval whose id is not kept in timerRef.current
setInterval_NoRef(w) ==
    [w EXCEPT !.timers = @ \cup {CHOOSE i \in 1..(Cardinality(w.timers) + 1) : i \notin w.timers}]

\* timerRef.current = setInterval(...): a fresh id, distinct from every live one
setInterval(w) ==
    LET id == CHOOSE i \in 1..(Cardinality(w.timers) + 1) :
                  i \notin w.timers /\ \A j \in 1..(i - 1) : j \in w.timers
    IN  [w EXCEPT !.timers = @ \cup {id}, !.timerRef = id]

\* the interval callback that ends the round one tick late
intervalCallback_OffByOne(w) ==
    IF w.gameState.timeLeft < 1
    THEN [clearInterval(w) EXCEPT !.gameState.timeLeft = 0, !.gameState.gameOver = TRUE]
    ELSE [w EXCEPT !.gameState.timeLeft = @ - 1]

\* the interval callback that never ends the round
intervalCallback_NoEnd(w) ==
    IF w.gameState.timeLeft <= 1
    THEN w
    ELSE [w EXCEPT !.gameState.timeLeft = @ - 1]

\* the interval callback of startGame and of nextLevel
intervalCallback(w) ==
    IF w.gameState.timeLeft <= 1
    THEN [clearInterval(w) EXCEPT !.gameState.timeLeft = 0, !.gameState.gameOver = TRUE]
    ELSE [w EXCEPT !.gameState.timeLeft = @ - 1]

startGame(w, seed) ==
    setInterval(
        [w EXCEPT !.characters = generateCharacters(w.gameState.difficulty, w.gameState.level, seed),
                  !.gameState.gameStarted = TRUE,
                  !.gameState.gameOver = FALSE,
                  !.gameState.timeLeft = GAME_DURATION,
                  !.scopeVisible = TRUE])

\* the score update with 100 points for a target at every level
clickScore_FlatHundred(gs, c) ==
    IF c.isGoofy
    THEN [gs EXCEPT !.score = @ + 100]
    ELSE [gs EXCEPT !.score = Max(0, @ - 25)]

\* the score update without the floor of 0
clickScore_NoFloor(gs, c) ==
    IF c.isGoofy
    THEN [gs EXCEPT !.score = @ + (100 * gs.level)]
    ELSE [gs EXCEPT !.score = @ - 25]

\* the score update of a click on the character c
clickScore(gs, c) ==
    IF c.isGoofy
    THEN [gs EXCEPT !.score = @ + (100 * gs.level)]
    ELSE [gs EXCEPT !.score = Max(0, @ - 25)]

\* the score updates of the characters that match the click, in list order
RECURSIVE clickUpdates(_, _, _, _)
clickUpdates(gs, chars, characterId, i) ==
    IF i > Len(chars) THEN gs
    ELSE IF chars[i].id = characterId /\ ~chars[i].isFound
         THEN clickUpdates(clickScore(gs, chars[i]), chars, characterId, i + 1)
         ELSE clickUpdates(gs, chars, characterId, i + 1)

\* handleCharacterClick that scores a found entity again
handleCharacterClick_IgnoresFound(w, characterId) ==
    IF ~w.gameState.gameStarted \/ w.gameState.gameOver THEN w
    ELSE [w EXCEPT
            !.characters = [i \in 1..Len(w.characters) |->
                IF w.characters[i].id = characterId /\ w.characters[i].isGoofy
                THEN [w.characters[i] EXCEPT !.isFound = TRUE]
                ELSE w.characters[i]],
            !.gameState = clickUpdates(w.gameState,
                              [i \in 1..Len(w.characters) |->
                                  [w.characters[i] EXCEPT !.isFound = FALSE]],
                              characterId, 1)]

\* handleCharacterClick that marks every clicked entity as found
handleCharacterClick_MarksAny(w, characterId) ==
    IF ~w.gameState.gameStarted \/ w.gameState.gameOver THEN w
    ELSE [w EXCEPT
            !.characters = [i \in 1..Len(w.characters) |->
                IF w.characters[i].id = characterId /\ ~w.characters[i].isFound
                THEN [w.characters[i] EXCEPT !.isFound = TRUE]
                ELSE w.characters[i]],
            !.gameState = clickUpdates(w.gameState, w.characters, characterId, 1)]

handleCharacterClick(w, characterId) ==
    IF ~w.gameState.gameStarted \/ w.gameState.gameOver THEN w
    ELSE [w EXCEPT
            !.characters = [i \in 1..Len(w.characters) |->
                IF w.characters[i].id = characterId /\ ~w.characters[i].isFound
                   /\ w.characters[i].isGoofy
                THEN [w.characters[i] EXCEPT !.isFound = TRUE]
                ELSE w.characters[i]],
            !.gameState = clickUpdates(w.gameState, w.characters, characterId, 1)]

\* the completion test that is content with one found target
allGoofysFound_Some(chars) ==
    Len(chars) > 0 /\ \E i \in 1..Len(chars) : chars[i].isGoofy /\ chars[i].isFound

allGoofysFound(chars) ==
    Len(chars) > 0 /\ \A i \in 1..Len(chars) : chars[i].isGoofy => chars[i].isFound

\* the high score check that stores every final score
checkHighScore_Always(w, newScore) ==
    [w EXCEPT !.highScore = Num(newScore),
              !.localStorage = Stored(toString(newScore))]

\* the high score check of the level completion effect
checkHighScore(w, newScore) ==
    IF Greater(newScore, w.highScore)
    THEN [w EXCEPT !.highScore = Num(newScore),
                   !.localStorage = Stored(toString(newScore))]
    ELSE w

\* the level completion effect without the time bonus
levelCompletionEffect_NoBonus(r, w) ==
    IF ~r.gameState.gameStarted \/ r.gameState.gameOver THEN w
    ELSE IF allGoofysFound(r.characters)
         THEN checkHighScore(
                  [clearInterval(w) EXCEPT !.gameState.score = r.gameState.score,
                                           !.gameState.level = @ + 1,
                                           !.gameState.gameOver = TRUE],
                  r.gameState.score)
         ELSE w

\* the level completion effect of the render r, applied to the state w
levelCompletionEffect(r, w) ==
    IF ~r.gameState.gameStarted \/ r.gameState.gameOver THEN w
    ELSE IF allGoofysFound(r.characters)
         THEN LET timeBonus == r.gameState.timeLeft * 10
                  newScore == r.gameState.score + timeBonus
              IN  checkHighScore(
                      [clearInterval(w) EXCEPT !.gameState.score = newScore,
                                               !.gameState.level = @ + 1,
                                               !.gameState.gameOver = TRUE],
                      newScore)
         ELSE w

\* the game over effect that leaves the scope as it is
gameOverEffect_KeepsScope(r, w) ==
    IF r.gameState.gameOver
    THEN clearInterval(w)
    ELSE w

\* the game over effect of the render r, applied to the state w
gameOverEffect(r, w) ==
    IF r.gameState.gameOver
    THEN [clearInterval(w) EXCEPT !.scopeVisible = FALSE]
    ELSE w

completionDeps(r) ==
    <<r.characters, r.gameState.gameStarted, r.gameState.gameOver,
      r.gameState.timeLeft, r.gameState.score, r.highScore>>

gameOverDeps(r) == <<r.gameState.gameOver, r.gameState.timeLeft>>

\* the state of the component that a render reads
rendered(w) == <<w.gameState, w.characters, w.scopeVisible, w.highScore>>

\* The render of the state r after the render of the state p, and the renders
\* that its effects cause: an effect runs when one of its dependencies changed.
RECURSIVE commit(_, _)
commit(p, r) ==
    LET w1 == IF completionDeps(p) # completionDeps(r) THEN levelCompletionEffect(r, r) ELSE r
        w2 == IF gameOverDeps(p) # gameOverDeps(r) THEN gameOverEffect(r, w1) ELSE w1
    IN  IF rendered(w2) = rendered(r) THEN w2 ELSE commit(r, w2)

\* resetGame that keeps the level
resetGame_KeepLevel(w) ==
    [clearInterval(w) EXCEPT
        !.gameState = [score |-> 0, timeLeft |-> GAME_DURATION, gameStarted |-> FALSE,
                       gameOver |-> FALSE, difficulty |-> w.gameState.difficulty,
                       level |-> w.gameState.level],
        !.characters = <<>>,
        !.scopeVisible = FALSE]

resetGame(w) ==
    [clearInterval(w) EXCEPT
        !.gameState = [score |-> 0, timeLeft |-> GAME_DURATION, gameStarted |-> FALSE,
                       gameOver |-> FALSE, difficulty |-> w.gameState.difficulty, level |-> 1],
        !.characters = <<>>,
        !.scopeVisible = FALSE]

\* nextLevel that increments the level once more
nextLevel_BumpsLevel(w, seed) ==
    setInterval(
        [w EXCEPT !.characters = generateCharacters(w.gameState.difficulty, w.gameState.level + 1, seed),
                  !.gameState.gameStarted = TRUE,
                  !.gameState.gameOver = FALSE,
                  !.gameState.timeLeft = GAME_DURATION,
                  !.gameState.level = @ + 1,
                  !.scopeVisible = TRUE])

nextLevel(w, seed) ==
    setInterval(
        [w EXCEPT !.characters = generateCharacters(w.gameState.difficulty, w.gameState.level, seed),
                  !.gameState.gameStarted = TRUE,
                  !.gameState.gameOver = FALSE,
                  !.gameState.timeLeft = GAME_DURATION,
                  !.scopeVisible = TRUE])

\* the select of the difficulty
setDifficulty(w, d) == [w EXCEPT !.gameState.difficulty = d]

-----------------------------------------------------------------------------
(* What the render shows: the controls that can be used.                   *)

overlayShown(w) == ~w.gameState.gameStarted \/ w.gameState.gameOver
startShown(w) == overlayShown(w) /\ ~w.gameState.gameStarted
\* the Next Level button shown after a lost round too
nextLevelShown_AnyOver(w) ==
    overlayShown(w) /\ w.gameState.gameStarted /\ w.gameState.gameOver

nextLevelShown(w) ==
    overlayShown(w) /\ w.gameState.gameStarted
    /\ w.gameState.gameOver /\ w.gameState.timeLeft > 0
resetShown(w) == overlayShown(w) /\ w.gameState.gameStarted
selectEnabled(w) == overlayShown(w) /\ ~w.gameState.gameStarted

\* the ids of the buttons of the game area that are not disabled
clickable(w) == {w.characters[i].id : i \in {j \in 1..Len(w.characters) : ~w.characters[j].isFound}}

-----------------------------------------------------------------------------
(* The state machine.                                                      *)

\* the strings the store may hold when the component mounts
InitialStores == {Absent, Stored(<<"a", "b", "c">>), Stored(<<"5", "0", "0">>)}

Init ==
    /\ gameState = [score |-> 0, timeLeft |-> GAME_DURATION, gameStarted |-> FALSE,
                    gameOver |-> FALSE, difficulty |-> "medium", level |-> 1]
    /\ characters = <<>>
    /\ scopeVisible = FALSE
    /\ localStorage \in InitialStores
    /\ highScore = InitialHighScore(localStorage)
    /\ timerRef = 0
    /\ timers = {}
    /\ penalties = 0
    /\ startScore = 0

Becomes(w) ==
    /\ gameState' = w.gameState
    /\ characters' = w.characters
    /\ scopeVisible' = w.scopeVisible
    /\ highScore' = w.highScore
    /\ localStorage' = w.localStorage
    /\ timerRef' = w.timerRef
    /\ timers' = w.timers

\* the over-won state is left only when the win was early enough
carried(w) ==
    w.gameState.gameOver /\ w.gameState.timeLeft > 0
        => w.gameState.timeLeft >= GAME_DURATION - MaxCarryTicks

\* the order in which the targets are clicked: those after the first
\* MaxFreeTargets in index order, then the first MaxFreeTargets in any order
inOrder(chars, i) ==
    \A j \in 1..Len(chars) :
        (/\ chars[j].isGoofy
         /\ chars[j].id[2] >= MaxFreeTargets
         /\ chars[i].id[2] < MaxFreeTargets \/ chars[j].id[2] < chars[i].id[2])
            => chars[j].isFound

StartGame ==
    /\ startShown(World)
    /\ highScore.nan \/ highScore.val <= MaxReplayHighScore
    /\ \E seed \in 0..MaxSeed : Becomes(commit(World, startGame(World, seed)))
    /\ startScore' = gameState.score
    /\ UNCHANGED penalties

\* one firing of a live interval
Tick ==
    /\ \E id \in timers : Becomes(commit(World, intervalCallback(World)))
    /\ UNCHANGED <<penalties, startScore>>

\* a click on the button of a target entity
ClickGoofy ==
    /\ \E i \in 1..Len(characters) :
          /\ characters[i].isGoofy
          /\ characters[i].id \in clickable(World)
          /\ inOrder(characters, i)
          /\ Becomes(commit(World, handleCharacterClick(World, characters[i].id)))
    /\ UNCHANGED <<penalties, startScore>>

\* a click on the button of an entity that is no target
ClickOther ==
    /\ overlayShown(World) \/ gameState.score = 0 \/ penalties < MaxPenalties
    /\ \E i \in 1..Len(characters) :
          /\ ~characters[i].isGoofy
          /\ characters[i].id[2] <= MaxWrongId
          /\ characters[i].id \in clickable(World)
          /\ Becomes(commit(World, handleCharacterClick(World, characters[i].id)))
    /\ penalties' = IF gameState'.score < gameState.score THEN penalties + 1 ELSE penalties
    /\ UNCHANGED startScore

ResetGame ==
    /\ resetShown(World)
    /\ carried(World)
    /\ Becomes(commit(World, resetGame(World)))
    /\ UNCHANGED <<penalties, startScore>>

NextLevel ==
    /\ nextLevelShown(World)
    /\ carried(World)
    /\ totalCharactersFor(gameState.difficulty, gameState.level) <= MaxEntities
    /\ \E seed \in 0..MaxSeed : Becomes(commit(World, nextLevel(World, seed)))
    /\ startScore' = gameState.score
    /\ UNCHANGED penalties

SetDifficulty ==
    /\ selectEnabled(World)
    /\ \E d \in Tiers : Becomes(commit(World, setDifficulty(World, d)))
    /\ UNCHANGED <<penalties, startScore>>

Next ==
    \/ StartGame
    \/ Tick
    \/ ClickGoofy
    \/ ClickOther
    \/ ResetGame
    \/ NextLevel
    \/ SetDifficulty

Spec == Init /\ [][Next]_vars

\* the component mounted in a browser that has no stored high score
InitFresh == Init /\ localStorage = Absent

SpecFresh == InitFresh /\ [][Next]_vars

\* the rounds of the tier selected at mount: started, played, ended, reset
NextLive ==
    \/ StartGame
    \/ Tick
    \/ ClickGoofy
    \/ ClickOther
    \/ ResetGame

\* A live interval fires again and again: setInterval calls the callback
\* every second until clearInterval cancels it.
SpecLive == InitFresh /\ [][NextLive]_vars /\ WF_vars(Tick)

-----------------------------------------------------------------------------
(* The round generator on its own: a round is started at every difficulty  *)
(* and level, by startGame at level 1 and by nextLevel after a won round   *)
(* at the levels above.                                                    *)

\* the entities of a round in which every target was found
allFound(chars) ==
    [i \in 1..Len(chars) |-> IF chars[i].isGoofy THEN [chars[i] EXCEPT !.isFound = TRUE]
                              ELSE chars[i]]

\* idle at level 1; above, the state after the round of level - 1 was won
\* with one second left (the score is not read by the generator)
InitGen ==
    /\ \E d \in Tiers, l \in 1..MaxGenLevel :
          /\ gameState = [score |-> IF l = 1 THEN 0 ELSE 10, timeLeft |-> IF l = 1 THEN GAME_DURATION ELSE 1,
                          gameStarted |-> l > 1, gameOver |-> l > 1,
                          difficulty |-> d, level |-> l]
          /\ characters = IF l = 1 THEN <<>> ELSE allFound(generateCharacters(d, l - 1, 0))
          /\ timerRef = IF l = 1 THEN 0 ELSE 1
    /\ scopeVisible = FALSE
    /\ localStorage = Absent
    /\ highScore = InitialHighScore(localStorage)
    /\ timers = {}
    /\ penalties = 0
    /\ startScore = 0

GenStartGame ==
    /\ startShown(World)
    /\ \E seed \in 0..MaxSeed : Becomes(commit(World, startGame(World, seed)))
    /\ startScore' = gameState.score
    /\ UNCHANGED penalties

GenNextLevel ==
    /\ nextLevelShown(World)
    /\ \E seed \in 0..MaxSeed : Becomes(commit(World, nextLevel(World, seed)))
    /\ startScore' = gameState.score
    /\ UNCHANGED penalties

NextGen ==
    \/ GenStartGame
    \/ GenNextLevel

SpecGen == InitGen /\ [][NextGen]_vars

-----------------------------------------------------------------------------
(* The phases of the round state machine.                                  *)

Idle == ~gameState.gameStarted
Active == gameState.gameStarted /\ ~gameState.gameOver
OverWon == gameState.gameStarted /\ gameState.gameOver /\ gameState.timeLeft > 0
OverLost == gameState.gameStarted /\ gameState.gameOver /\ gameState.timeLeft = 0

targets(chars) == {i \in 1..Len(chars) : chars[i].isGoofy}
found(chars) == {i \in 1..Len(chars) : chars[i].isFound}

-----------------------------------------------------------------------------
(* Properties.                                                             *)

\* C1: in an active round no state has every target found, and the step
\* that finds the last unfound target ends the round as a win: gameOver
\* becomes true, timeLeft keeps its value (which is > 0), and the score is
\* the score after the click (old score + 100 * level) plus 10 * timeLeft.
C1_LastTargetWins ==
    /\ [](Active => ~allGoofysFound(characters))
    /\ [][(Active /\ allGoofysFound(characters')) =>
            /\ gameState'.gameStarted /\ gameState'.gameOver
            /\ gameState.timeLeft > 0
            /\ gameState'.timeLeft = gameState.timeLeft
            /\ gameState'.score =
                  (gameState.score + 100 * gameState.level) + 10 * gameState.timeLeft]_vars

\* a win after ticks and after a wrong click that cost 25 points
C1_Witness ==
    /\ OverWon
    /\ allGoofysFound(characters)
    /\ gameState.timeLeft < GAME_DURATION
    /\ penalties > 0
    /\ gameState.score = startScore + 100 * Cardinality(targets(characters)) - 25
                          + 10 * gameState.timeLeft

\* C2: the tick at timeLeft <= 1 with a target still unfound ends the round
\* with gameOver and timeLeft = 0, and in that state every step other than
\* resetGame (ticks and clicks included) leaves score and timeLeft unchanged.
C2_TimeoutLosesAndFreezes ==
    /\ [][(Tick /\ Active /\ gameState.timeLeft <= 1 /\ ~allGoofysFound(characters)) =>
            (gameState'.gameOver /\ gameState'.timeLeft = 0
             /\ gameState'.score = gameState.score /\ timers' = {})]_vars
    /\ [][OverLost =>
            \/ ResetGame
            \/ (gameState'.score = gameState.score /\ gameState'.timeLeft = 0
                /\ gameState'.gameOver)]_vars

\* a lost round in which a target was found and others were not
C2_Witness ==
    /\ OverLost
    /\ gameState.score > 0
    /\ found(characters) # {}
    /\ ~allGoofysFound(characters)
    /\ \E i \in 1..Len(characters) :
          handleCharacterClick(World, characters[i].id) = World

\* C3: the score is a natural number in every reachable state.
C3_ScoreNonNegative == gameState.score \in Nat

\* an active round at score 0 in which a click on a non-target leaves 0
C3_Witness ==
    /\ Active
    /\ gameState.score = 0
    /\ gameState.timeLeft < GAME_DURATION
    /\ \E i \in 1..Len(characters) :
          /\ ~characters[i].isGoofy
          /\ handleCharacterClick(World, characters[i].id).gameState.score = 0

\* C4: at most one interval is live, it is the one timerRef.current names,
\* and it is live exactly in the active state.
C4_OneLiveTimer ==
    /\ Cardinality(timers) <= 1
    /\ Active => timers = {timerRef}
    /\ ~Active => timers = {}

\* the timer of a second round, created after the first one was cancelled
C4_Witness ==
    /\ Active
    /\ gameState.level = 2
    /\ timers = {timerRef}
    /\ gameState.timeLeft < GAME_DURATION

\* C5: gameOver excludes a live interval, and a step from a state with
\* gameOver never lowers timeLeft.
C5_OverStopsCountdown ==
    /\ [](gameState.gameOver => timers = {})
    /\ [][gameState.gameOver => gameState'.timeLeft >= gameState.timeLeft]_vars

\* a won round, whose timeLeft is still there to be decremented
C5_Witness ==
    /\ OverWon
    /\ gameState.timeLeft > 1
    /\ timers = {}
    /\ timerRef # 0

\* the stored high score as a number
storedHighScore == parseInt(getItemOrZero(localStorage))

\* C6: on every step into an over state, won or lost, with a stored high
\* score V and a final score S, the stored high score becomes max(V, S).
C6_HighScoreOnEveryRoundEnd ==
    [][(~gameState.gameOver /\ gameState'.gameOver /\ ~highScore.nan) =>
        /\ highScore' = Num(Max(highScore.val, gameState'.score))
        /\ storedHighScore' = highScore']_vars

\* C7: a step that changes the high score or its stored copy is the end of
\* a round whose final score is strictly greater than the value before, and
\* it sets both to that score; so the high score never decreases.
C7_HighScoreOnlyGrows ==
    [][(highScore' # highScore \/ localStorage' # localStorage) =>
        /\ ~gameState.gameOver /\ gameState'.gameOver
        /\ ~highScore.nan
        /\ gameState'.score > highScore.val
        /\ highScore' = Num(gameState'.score)
        /\ localStorage' = Stored(toString(gameState'.score))
        /\ storedHighScore' = highScore']_vars

\* idle again after a win that beat the stored high score of 500
C7_Witness ==
    /\ Idle
    /\ localStorage # Stored(<<"5", "0", "0">>)
    /\ highScore.val > 500
    /\ storedHighScore = highScore

\* the state that resetGame and the renders after it lead to
afterReset == commit(World, resetGame(World))

\* C8: in every reachable state, idle, active or over, resetGame leads to
\* idle with no entity, score 0, level 1, timeLeft 60, the indicator hidden
\* and no live interval, and keeps the difficulty and the high score.
C8_ResetFromAnyState ==
    /\ afterReset.gameState =
          [score |-> 0, timeLeft |-> 60, gameStarted |-> FALSE, gameOver |-> FALSE,
           difficulty |-> gameState.difficulty, level |-> 1]
    /\ afterReset.characters = <<>>
    /\ afterReset.scopeVisible = FALSE
    /\ afterReset.timers = {}
    /\ afterReset.highScore = highScore
    /\ afterReset.localStorage = localStorage

\* idle after the reset of a lost round on the easy tier
C8_Witness ==
    /\ Idle
    /\ timerRef # 0
    /\ gameState.difficulty = "easy"
    /\ gameState.score = 0 /\ gameState.level = 1 /\ gameState.timeLeft = 60
    /\ characters = <<>>
    /\ highScore = Num(0)

\* the base counts of the tiers as the specification gives them
tierBase(d) == CASE d = "easy" -> 20 [] d = "medium" -> 40 [] d = "hard" -> 60
tierTargets(d) == CASE d = "easy" -> 3 [] d = "medium" -> 5 [] d = "hard" -> 7

\* C9: a round started at level L has min(base + 5 * (L - 1), 80) entities,
\* of which min(baseTargets + (L - 1) \div 2, 12) are targets; so there are
\* at most 12 targets, at most 80 entities, and no more targets than
\* entities.
C9_GeneratedCounts ==
    Active =>
        /\ Len(characters) = Min(tierBase(gameState.difficulty) + 5 * (gameState.level - 1), 80)
        /\ Cardinality(targets(characters)) =
              Min(tierTargets(gameState.difficulty) + ((gameState.level - 1) \div 2), 12)
        /\ Cardinality(targets(characters)) <= 12
        /\ Len(characters) <= 80
        /\ Cardinality(targets(characters)) <= Len(characters)

\* a generated round in which both caps apply
C9_Witness ==
    /\ Active
    /\ gameState.difficulty = "easy"
    /\ Len(characters) = 80
    /\ Cardinality(targets(characters)) = 12

\* C10: as long as no click lowered the score, the score of a round at
\* level L is its start score plus 100 * L for each target found, and the
\* score of a won round with T targets and r seconds left is the start
\* score plus 100 * L * T + 10 * r (the level is L + 1 after the win).
C10_ScoreOfCleanRound ==
    penalties = 0 =>
        /\ Active =>
              gameState.score =
                  startScore + 100 * gameState.level * Cardinality(found(characters))
        /\ OverWon =>
              gameState.score =
                  startScore
                  + 100 * (gameState.level - 1) * Cardinality(targets(characters))
                  + 10 * gameState.timeLeft

\* easy tier, level 1, 3 targets of 20 entities, won with 45 seconds left
C10_Witness ==
    /\ OverWon
    /\ penalties = 0
    /\ gameState.difficulty = "easy"
    /\ gameState.level = 2
    /\ Len(characters) = 20
    /\ Cardinality(targets(characters)) = 3
    /\ gameState.timeLeft = 45
    /\ startScore = 0
    /\ gameState.score = 750

\* C11: in an active round the click on an entity that is no target sets
\* the score to max(0, score - 25) and changes nothing else: the clicked
\* entity stays unfound, no entity changes, timeLeft, level and the phase
\* stay, and so do the high score and the timer.
C11_WrongClickCostsOnly25 ==
    [][(ClickOther /\ Active) =>
        /\ gameState' = [gameState EXCEPT !.score = Max(0, gameState.score - 25)]
        /\ characters' = characters
        /\ Active'
        /\ \A i \in 1..Len(characters') : ~characters'[i].isGoofy => ~characters'[i].isFound
        /\ highScore' = highScore /\ localStorage' = localStorage
        /\ timers' = timers /\ scopeVisible' = scopeVisible]_vars

\* an active round after found targets and one click that cost 25 points
C11_Witness ==
    /\ Active
    /\ penalties = 1
    /\ found(characters) # {}
    /\ found(characters) \subseteq targets(characters)
    /\ gameState.score =
          startScore + 100 * gameState.level * Cardinality(found(characters)) - 25

\* the state that a call of handleCharacterClick and the renders after it lead to
afterClick(characterId) == commit(World, handleCharacterClick(World, characterId))

\* two ids that no entity of the current set has (ids count from 0)
staleIds == {<<"goofy", Len(characters)>>, <<"char", Len(characters)>>}

\* the ids of the entities that are already found
foundIds == {characters[i].id : i \in found(characters)}

\* the ids of all entities
allIds == {characters[i].id : i \in 1..Len(characters)}

\* C12: a call of handleCharacterClick changes nothing (score, entities,
\* timeLeft, level, phase, high score, timer) when the entity is already
\* found, when the id matches no entity, and, for every id, when the round
\* is not active (idle or over).
C12_ClickNoOp ==
    /\ \A id \in foundIds \cup staleIds : afterClick(id) = World
    /\ ~Active => \A id \in allIds : afterClick(id) = World

\* an active round with two found targets, whose buttons call a no-op
C12_Witness ==
    /\ Active
    /\ Cardinality(foundIds) = 2
    /\ gameState.score > 0
    /\ allIds \ foundIds # {}
    /\ \A id \in foundIds \cup staleIds : afterClick(id) = World
    /\ \E id \in allIds \ foundIds : afterClick(id) # World

\* C13: the step that wins a round increments the level by exactly one;
\* nextLevel leads from over-won to active with timeLeft = 60, a new entity
\* set of the size of the (already incremented) level with no entity
\* found, and the score kept; startGame and nextLevel keep the level.
C13_LevelProgression ==
    /\ [][(Active /\ OverWon') => gameState'.level = gameState.level + 1]_vars
    /\ [][NextLevel =>
            /\ OverWon /\ Active'
            /\ gameState'.timeLeft = 60
            /\ Len(characters') =
                  Min(tierBase(gameState.difficulty) + 5 * (gameState.level - 1), 80)
            /\ Cardinality(targets(characters')) =
                  Min(tierTargets(gameState.difficulty) + ((gameState.level - 1) \div 2), 12)
            /\ found(characters') = {}
            /\ gameState'.score = gameState.score
            /\ gameState'.level = gameState.level
            /\ gameState'.difficulty = gameState.difficulty]_vars
    /\ [][StartGame => (Idle /\ Active' /\ gameState'.level = gameState.level)]_vars

\* the second round on the easy tier, just started with the score of the first
C13_Witness ==
    /\ Active
    /\ gameState.level = 2
    /\ gameState.timeLeft = 60
    /\ gameState.score = startScore
    /\ startScore >= 300
    /\ Len(characters) = 25
    /\ found(characters) = {}

\* C14: in every state that is not active (idle, over-won, over-lost) the
\* entity set is empty: it is cleared when a round ends as well as by
\* resetGame.
C14_NoEntitiesOutsideRound == ~Active => characters = <<>>

\* the stored entry is absent or holds a string that is no number
noStoredNumber == ~localStorage.present \/ storedHighScore.nan

\* C15: while the stored entry is absent or no number, the high score is
\* 0, and the step that wins a round with a final score S > 0 makes S the
\* high score and stores it.
C15_BadStoreCountsAsZero ==
    /\ [](noStoredNumber => highScore = Num(0))
    /\ [][(noStoredNumber /\ Active /\ OverWon' /\ gameState'.score > 0) =>
            /\ highScore' = Num(gameState'.score)
            /\ localStorage' = Stored(toString(gameState'.score))]_vars

\* C16: in every reachable state scopeVisible = (gameStarted and not
\* gameOver): the scope is shown in an active round and hidden in idle,
\* after a win, after a loss and after resetGame.
C16_ScopeShownIffActive == scopeVisible = (gameState.gameStarted /\ ~gameState.gameOver)

\* a lost round of the second level: the scope was shown twice and is hidden
C16_Witness ==
    /\ OverLost
    /\ gameState.level = 2
    /\ ~scopeVisible
    /\ startScore > 0
    /\ timers = {}

\* the entities c and d differ at most in isFound
sameButFound(c, d) ==
    /\ c.id = d.id /\ c.x = d.x /\ c.y = d.y
    /\ c.isGoofy = d.isGoofy /\ c.emoji = d.emoji

\* C17: the ids of the entities are pairwise distinct (there are as many
\* ids as entities) and only targets are found; a step from an active round (a click, a tick, the end of the
\* round) keeps the number of entities and the id, position, isGoofy and
\* glyph of each, never takes isFound back, and sets isFound for at most
\* one entity.
C17_OnlyFoundFlagsChange ==
    /\ [](Cardinality(allIds) = Len(characters))
    /\ [](found(characters) \subseteq targets(characters))
    /\ [][Active =>
            /\ Len(characters') = Len(characters)
            /\ \A i \in 1..Len(characters) :
                  /\ sameButFound(characters[i], characters'[i])
                  /\ characters[i].isFound => characters'[i].isFound
            /\ Cardinality(found(characters') \ found(characters)) <= 1]_vars

\* a round in which targets were found one by one, some are left, and a
\* click on a non-target was made
C17_Witness ==
    /\ Active
    /\ Cardinality(found(characters)) = 3
    /\ found(characters) # targets(characters)
    /\ penalties = 1
    /\ gameState.timeLeft < GAME_DURATION
    /\ Len(characters) = totalCharactersFor(gameState.difficulty, gameState.level)

\* C18: timeLeft is always in 0..60; a tick at timeLeft > 1 lowers it by
\* exactly 1 and a tick at timeLeft <= 1 ends the round; no step from an
\* active round raises timeLeft; and, the interval firing as long as it
\* is live, every active round is over at some later time.
C18_RoundEnds ==
    /\ [](gameState.timeLeft \in 0..60)
    /\ [][(Tick /\ Active /\ gameState.timeLeft > 1) =>
            gameState'.timeLeft = gameState.timeLeft - 1]_vars
    /\ [][(Tick /\ Active /\ gameState.timeLeft <= 1) => gameState'.gameOver]_vars
    /\ [][Active => gameState'.timeLeft <= gameState.timeLeft]_vars
    /\ (Active ~> gameState.gameOver)

\* a round that no click touched and that 60 ticks ended
C18_Witness ==
    /\ OverLost
    /\ found(characters) = {}
    /\ gameState.score = 0
    /\ penalties = 0
    /\ timers = {}

C20_ControlsRestrictTransitions ==
    /\ [](startShown(World) <=> Idle)
    /\ [](nextLevelShown(World) <=> OverWon)
    /\ [](selectEnabled(World) <=> Idle)
    /\ [](OverLost => (resetShown(World) /\ ~startShown(World)
                       /\ ~nextLevelShown(World) /\ ~selectEnabled(World)))
    /\ [][OverLost =>
            \/ gameState' = gameState /\ characters' = characters
            \/ Idle' /\ gameState'.level = 1 /\ gameState'.score = 0]_vars
    /\ [][(~Active /\ Active') =>
            \/ Idle /\ gameState'.level = 1 /\ gameState'.score = 0
            \/ OverWon /\ gameState'.level = gameState.level
                 /\ gameState'.score = gameState.score]_vars
    /\ [][gameState'.difficulty # gameState.difficulty => (Idle /\ Idle')]_vars

\* a round of the second level was lost: only the reset is left, and it
\* leads back to level 1 and score 0
C20_Witness ==
    /\ OverLost
    /\ gameState.level = 2
    /\ gameState.score > 0
    /\ resetShown(World)
    /\ ~nextLevelShown(World)
    /\ afterReset.gameState.level = 1
    /\ afterReset.gameState.score = 0

====
